---- MODULE Spec2Model ----
(***************************************************************************)
(* Directo -> Elasticsearch ETL pipeline and the question answering path.  *)
(*                                                                         *)
(* The accounting API, the search store and the chat oracle are external:  *)
(* their answers are inputs, drawn from small sets.  Everything between    *)
(* the calls is translated from the Python sources.                        *)
(***************************************************************************)
EXTENDS Integers, Sequences, FiniteSets, TLC

(***************************************************************************)
(* Bounds of the model.                                                    *)
(***************************************************************************)
\* rows the accounting system returns in total during one behaviour
MaxSourceRows == 2
\* rows handed to index_dataframe in total over a sequence of loads
MaxRowsLoaded == 2
\* environment faults (failed request, rejected document, ...) per behaviour
MaxFaults == 1
\* tokens in the oracle's answer to the translation prompt
MaxTextLen == 4
\* documents of the store a query matches
MaxMatching == 101
\* characters the operator types at the migration prompt
MaxConfirmLen == 4
\* rows of the row-set of a single bulk call
MaxBulkRows == 6
\* days the scheduler loop is followed, and minutes a scheduled run may take
MaxSchedDays == 2
MaxRunMinutes == 2

(***************************************************************************)
(* Constants of the program.                                               *)
(***************************************************************************)
\* body["size"] of a search without aggregations
DocumentCap == 100
\* chunk_size of the helpers.bulk call in index_dataframe
ChunkSize == 500
\* the slice [:20] of _format_results_for_ai
FormatCap == 20
\* failed[:5] in index_dataframe
FailLogCap == 5
\* schedule.every().day with time.sleep(60): minutes, that is polls, per day
DayMinutes == 1440

(***************************************************************************)
(* Python / pandas values.  Every value is a record of the same shape so   *)
(* that values of different kinds can be compared.                         *)
(***************************************************************************)
Str(s) == [k |-> "str", s |-> s, n |-> 0]
IntV(n) == [k |-> "int", s |-> "", n |-> n]
FloatV(n) == [k |-> "float", s |-> "", n |-> n]
Timestamp(n) == [k |-> "ts", s |-> "", n |-> n]
NaN == [k |-> "nan", s |-> "", n |-> 0]
NaT == [k |-> "nat", s |-> "", n |-> 0]
None == [k |-> "none", s |-> "", n |-> 0]

\* decimal numerals of the numbers the model uses
Numerals == <<"0", "1", "2">>
\* the dates the model uses, as the source writes them and as isoformat() prints them
DateStrings == <<"2024-01-01">>
IsoStrings == <<"2024-01-01T00:00:00">>
\* datetime.now().isoformat() at clock tick c
NowIso(c) == [k |-> "str", s |-> "now", n |-> c]

\* pd.isna(value)
IsNa(v) == v.k \in {"nan", "nat", "none"}

\* bool(value)
Truthy(v) ==
    CASE v.k = "str" -> v.s # ""
      [] v.k \in {"int", "float"} -> v.n # 0
      [] v.k = "ts" -> TRUE
      [] v.k = "nan" -> TRUE
      [] OTHER -> FALSE

\* str(value)
PyStr(v) ==
    CASE v.k = "str" -> v.s
      [] v.k = "int" -> Numerals[v.n + 1]
      [] v.k = "float" -> Numerals[v.n + 1] \o ".0"
      [] v.k = "ts" -> IsoStrings[v.n]
      [] v.k = "nan" -> "nan"
      [] v.k = "nat" -> "NaT"
      [] OTHER -> "None"

\* value.isoformat() of a Timestamp
IsoFormat(v) == Str(IsoStrings[v.n])

\* a == b in Python (1 == 1.0)
PyEq(a, b) ==
    \/ a.k = "str" /\ b.k = "str" /\ a.s = b.s
    \/ a.k \in {"int", "float"} /\ b.k \in {"int", "float"} /\ a.n = b.n
    \/ a.k = "ts" /\ b.k = "ts" /\ a.n = b.n

(***************************************************************************)
(* DirectoConnector                                                        *)
(***************************************************************************)
\* the order of the dict literal in get_all_financial_data
FetchOrder ==
    <<"invoices", "customers", "purchases", "items",
      "projects", "objects", "accounts", "suppliers">>
EntityTypes == {FetchOrder[i] : i \in 1..Len(FetchOrder)}

\* the columns the model gives each entity type: its key and one more field
KeyField(t) == IF t \in {"invoices", "purchases"} THEN "number" ELSE "code"
OtherField(t) ==
    CASE t = "invoices" -> "transactiondate"
      [] t = "purchases" -> "date1"
      [] OTHER -> "name"

\* pd.DataFrame(data): the columns are the union of the attribute names and
\* an attribute an element lacks is NaN
XmlToDataframe(elems) ==
    LET cols == UNION {DOMAIN elems[i] : i \in 1..Len(elems)}
    IN  [cols |-> cols,
         rows |-> [i \in 1..Len(elems) |->
                     [c \in cols |-> IF c \in DOMAIN elems[i]
                                     THEN Str(elems[i][c]) ELSE NaN]]]

\* df.empty: no rows or no columns
DfEmpty(df) == Len(df.rows) = 0 \/ df.cols = {}

\* one cell of pd.to_numeric(..., errors='coerce'): -1 stands for unparseable
ParseNum(v) ==
    IF v.k # "str" THEN -1
    ELSE IF \E n \in 1..Len(Numerals) : Numerals[n] = v.s
         THEN CHOOSE n \in 0..(Len(Numerals) - 1) : Numerals[n + 1] = v.s
         ELSE -1

\* pd.to_numeric on a column: int64 when every cell parses, else float64 with NaN
ToNumeric(df, col) ==
    LET allParse == \A i \in 1..Len(df.rows) : ParseNum(df.rows[i][col]) >= 0
        Conv(v) == IF ParseNum(v) < 0 THEN NaN
                   ELSE IF allParse THEN IntV(ParseNum(v)) ELSE FloatV(ParseNum(v))
    IN  [df EXCEPT !.rows =
            [i \in 1..Len(df.rows) |-> [df.rows[i] EXCEPT ![col] = Conv(@)]]]

\* one cell of pd.to_datetime(..., errors='coerce')
ParseDate(v) ==
    IF v.k = "str" /\ \E n \in 1..Len(DateStrings) : DateStrings[n] = v.s
    THEN Timestamp(CHOOSE n \in 1..Len(DateStrings) : DateStrings[n] = v.s)
    ELSE NaT

ToDatetime(df, col) ==
    [df EXCEPT !.rows =
        [i \in 1..Len(df.rows) |-> [df.rows[i] EXCEPT ![col] = ParseDate(@)]]]

GetInvoices(elems) ==
    LET df == XmlToDataframe(elems)
        d1 == IF "transactiondate" \in df.cols
              THEN ToDatetime(df, "transactiondate") ELSE df
        d2 == IF "number" \in d1.cols THEN ToNumeric(d1, "number") ELSE d1
    IN  IF DfEmpty(df) THEN df ELSE d2

GetPurchases(elems) ==
    LET df == XmlToDataframe(elems)
    IN  IF ~DfEmpty(df) /\ "date1" \in df.cols THEN ToDatetime(df, "date1") ELSE df

\* get_invoices, get_customers, ... applied to the elements of a good response
GetEntity(t, elems) ==
    CASE t = "invoices" -> GetInvoices(elems)
      [] t = "purchases" -> GetPurchases(elems)
      [] OTHER -> XmlToDataframe(elems)

(***************************************************************************)
(* ElasticsearchIndexer.index_dataframe                                    *)
(***************************************************************************)
\* mutant: the clean-up without the pd.isna test
CleanValueKeepsNa(v) == IF v.k = "ts" THEN IsoFormat(v) ELSE v

\* the per-value clean-up of the record loop
CleanValue(v) ==
    IF IsNa(v) THEN None
    ELSE IF v.k = "ts" THEN IsoFormat(v)
    ELSE v

\* df['indexed_at'] = now; df.to_dict('records'); the clean-up loop
CleanedRecord(row, now) ==
    [c \in (DOMAIN row) \cup {"indexed_at"} |->
        IF c = "indexed_at" THEN CleanValue(now) ELSE CleanValue(row[c])]

\* whether the action gets an "_id"
UsesIdField(rec, idField) ==
    idField # "" /\ idField \in DOMAIN rec /\ Truthy(rec[idField])

\* one bulk action; hasId = FALSE leaves the identity to the store
BuildAction(indexName, row, idField, now) ==
    LET rec == CleanedRecord(row, now)
    IN  [index |-> indexName,
         source |-> rec,
         hasId |-> UsesIdField(rec, idField),
         id |-> IF UsesIdField(rec, idField) THEN PyStr(rec[idField]) ELSE ""]

\* mutant: the timestamp taken anew for every row
BuildActionsStampedPerRow(indexName, df, idField, now) ==
    [i \in 1..Len(df.rows) |->
        BuildAction(indexName, df.rows[i], idField, [now EXCEPT !.n = @ + i - 1])]

\* the actions of one call: the timestamp is taken once, before the loop
BuildActions(indexName, df, idField, now) ==
    [i \in 1..Len(df.rows) |-> BuildAction(indexName, df.rows[i], idField, now)]

\* the id_field arguments of index_all_data
IdFieldOf(t) == IF t \in {"invoices", "purchases"} THEN "number" ELSE "code"

(***************************************************************************)
(* The store: per index a set of documents.  A document written with an    *)
(* "_id" replaces the one that has it; without, the store numbers it.      *)
(***************************************************************************)
Doc(a, n) ==
    [id |-> a.id, auto |-> ~a.hasId, n |-> IF a.hasId THEN 0 ELSE n, source |-> a.source]

IndexOne(docs, a, n) ==
    IF a.hasId
    THEN {d \in docs : d.auto \/ d.id # a.id} \cup {Doc(a, n)}
    ELSE docs \cup {Doc(a, n)}

\* number of the actions 1..i that are accepted and carry no "_id"
AutoCount(acts, rejected, i) ==
    Cardinality({j \in 1..i : ~acts[j].hasId /\ j \notin rejected})

\* helpers.bulk(..., raise_on_error=False): the first i actions in order, the
\* rejected ones skipped.  A document with an "_id" replaces the one that has
\* it, so of several actions with one "_id" the last accepted one stays.
ApplyBulk(docs, acts, rejected, i, base) ==
    LET accepted == (1..i) \ rejected
        SameId(j, k) == acts[j].hasId /\ acts[k].hasId /\ acts[j].id = acts[k].id
        Stays(j) == \A k \in accepted : k > j => ~SameId(j, k)
        Replaced(d) == ~d.auto /\ \E j \in accepted : acts[j].hasId /\ acts[j].id = d.id
    IN  {d \in docs : ~Replaced(d)}
            \cup {Doc(acts[j], base + AutoCount(acts, rejected, j)) :
                     j \in {k \in accepted : Stays(k)}}


(***************************************************************************)
(* State.                                                                  *)
(***************************************************************************)
VARIABLES
    pc,         \* position of the handler that is running
    store,      \* index name -> documents in the store
    exists,     \* index names the store has
    mapped,     \* index names created with the declared mapping
    autoId,     \* identities the store has assigned so far
    clock,      \* ticks of datetime.now()
    faults,     \* environment faults so far
    loadType,   \* entity type of the load sequence
    lastDf,     \* df argument of the last index_dataframe call
    actions,    \* bulk actions built by the last index_dataframe call
    rejected,   \* positions of the actions the store rejected in that call
    bulkCalls,  \* index names helpers.bulk was called for
    bulkRaised, \* index names whose helpers.bulk call raised
    loadRet,    \* return value of the last index_dataframe call
    rowsLoaded, \* rows handed to index_dataframe so far
    trigger,    \* who called run_etl_pipeline: "cli" or "http"
    data,       \* the dataset of get_all_financial_data: entity type -> row-set
    requested,  \* entity types _make_request was called for in this run
    loadCalls,  \* entity types index_dataframe was called for in this run
    fi,         \* fetches completed in this run
    si,         \* indices create_index_mappings is done with
    li,         \* index_dataframe calls completed in this run
    raised,     \* the exception that reached run_etl_pipeline's handler
    result,     \* return value of run_etl_pipeline
    written,    \* identities of the documents the store accepted in this run
    srcRows,    \* rows fetched so far
    etlResp,    \* response of POST /api/etl
    question,   \* the question handed to answer_question
    respText,   \* response_text of _build_elasticsearch_query, as tokens
    querySpec,  \* the parsed query spec
    searchBody, \* the body of the search request sent to the store
    esResult,   \* the store's search result
    formatted,  \* the lines _format_results_for_ai returns
    exc,        \* the exception raised inside answer_question's try
    answer,     \* what answer_question returns
    askResp,    \* response of POST /api/ask
    calls,      \* external calls of answer_question, in order
    response,   \* the accounting API's answer to the last request of the fetch phase
    indexOps,   \* delete and create calls issued for the store's indices
    failLog,    \* failure lines the last index_dataframe call logged
    confirm,    \* what the operator typed at the migration prompt
    migRet,     \* return value of migrate_indices
    mi,         \* indices the delete loop of migrate_indices is done with
    runs,       \* the pipeline runs that execute concurrently
    conn,       \* connection settings and the mode each client chose
    sched,      \* the daily scheduler: its position, time and runs
    forecastArgs, \* metric and periods of a forecast request
    askBody     \* the body of the POST /api/ask request

storeVars == <<store, exists, mapped, indexOps, autoId, clock>>
loadVars == <<loadType, lastDf, actions, rejected, bulkCalls, bulkRaised, loadRet, failLog, rowsLoaded>>
etlVars == <<trigger, data, requested, loadCalls, fi, si, li, raised, result,
             written, srcRows, etlResp, response>>
askVars == <<question, respText, querySpec, searchBody, esResult, formatted, exc,
             answer, askResp, calls>>
migrateVars == <<confirm, migRet, mi>>
concVars == <<runs>>
extraVars == <<conn, sched, forecastArgs, askBody>>
vars == <<pc, storeVars, faults, loadVars, etlVars, askVars, migrateVars, concVars, extraVars>>

NoDf == [cols |-> {}, rows |-> <<>>]

\* the pipeline runs that may execute at the same time
RunIds == {1, 2}
IdleRun ==
    [pc |-> "idle", trigger |-> "none", data |-> <<>>, li |-> 0, stamps |-> {},
     result |-> "none"]

(***************************************************************************)
(* Inputs: the elements of an accounting API response.                     *)
(***************************************************************************)
KeyStrings == {"", "0", "1"}
OtherStrings(t) ==
    IF t \in {"invoices", "purchases"} THEN {DateStrings[1]} ELSE {"n"}
AttrStrings(t) == KeyStrings \cup OtherStrings(t)

\* the attribute dicts an element of type t may carry
Elements(t) ==
    UNION {{e \in [S -> AttrStrings(t)] :
                \A a \in S : e[a] \in (IF a = KeyField(t) THEN KeyStrings
                                       ELSE OtherStrings(t))} :
           S \in SUBSET {KeyField(t), OtherField(t)}}

\* the element sets of the entity types, computed once
ElementsOf == [t \in EntityTypes |-> Elements(t)]

ElementSeqs(t, n) == UNION {[1..k -> ElementsOf[t]] : k \in 0..n}

(***************************************************************************)
(* index_dataframe as a step: what it does to the store and what it        *)
(* returns.  outcome is the store's answer to helpers.bulk.                *)
(***************************************************************************)
\* helpers.bulk sends the actions in chunks of chunk_size, one request each
NumChunks(n) == (n + ChunkSize - 1) \div ChunkSize

\* mutant: a bulk call that may raise after its last chunk was accepted
ChunksBeforeRaiseAfterLast(n) == 0..NumChunks(n)

\* the chunks the store may have accepted when a later chunk's request raises
ChunksBeforeRaise(n) == 0..(IF n = 0 THEN 0 ELSE NumChunks(n) - 1)

\* raises: a request raised after done chunks were accepted; otherwise the
\* positions the store rejected (drawn from the first MaxBulkRows positions)
BulkOutcomes(n) ==
    {[raises |-> TRUE, rejected |-> {}, done |-> c] : c \in ChunksBeforeRaise(n)}
        \cup {[raises |-> FALSE, rejected |-> R, done |-> NumChunks(n)] :
                 R \in SUBSET (1..(IF n < MaxBulkRows THEN n ELSE MaxBulkRows))}

FaultsOf(outcome) == IF outcome.raises THEN 1 ELSE Cardinality(outcome.rejected)

Min(a, b) == IF a < b THEN a ELSE b

\* mutant: every failure logged
LoggedAll(failed) == failed

\* the failures index_dataframe logs one by one: failed[:5]
LoggedFailures(failed) == Min(failed, FailLogCap)

\* what index_dataframe returns after a bulk call: success, an int
BulkReturn(success, failed) == IntV(success)

\* mutant: index_dataframe without its early return
SkipsNothing(df) == FALSE

\* the early return for an empty or missing row-set
SkipsIndexing(df) == DfEmpty(df)

IndexDataframe(indexName, df, idField, outcome) ==
    IF SkipsIndexing(df)
    THEN /\ actions' = <<>>
         /\ rejected' = {}
         /\ loadRet' = IntV(0)
         /\ failLog' = 0
         /\ UNCHANGED <<store, exists, autoId, clock, bulkCalls, bulkRaised>>
    ELSE LET acts == BuildActions(indexName, df, idField, NowIso(clock))
         IN  /\ actions' = acts
             /\ clock' = clock + 1
             /\ bulkCalls' = bulkCalls \cup {indexName}
             /\ bulkRaised' = IF outcome.raises THEN bulkRaised \cup {indexName} ELSE bulkRaised
             /\ IF outcome.raises
                THEN \* the chunks sent before the one that raised stay written
                     LET sent == Min(outcome.done * ChunkSize, Len(acts))
                     IN  /\ rejected' = {}
                         /\ loadRet' = IntV(0)
                         /\ failLog' = 0
                         /\ store' = [store EXCEPT ![indexName] =
                               ApplyBulk(@, acts, {}, sent, autoId)]
                         /\ autoId' = autoId + AutoCount(acts, {}, sent)
                         /\ exists' = IF sent > 0 THEN exists \cup {indexName} ELSE exists
                ELSE /\ rejected' = outcome.rejected
                     /\ loadRet' = BulkReturn(Len(acts) - Cardinality(outcome.rejected),
                                              Cardinality(outcome.rejected))
                     /\ failLog' = LoggedFailures(Cardinality(outcome.rejected))
                     /\ store' = [store EXCEPT ![indexName] =
                           ApplyBulk(@, acts, outcome.rejected, Len(acts), autoId)]
                     /\ autoId' = autoId + AutoCount(acts, outcome.rejected, Len(acts))
                     /\ exists' = IF Len(acts) > Cardinality(outcome.rejected)
                                  THEN exists \cup {indexName} ELSE exists

(***************************************************************************)
(* The accounting API's answer to one request, and _make_request.          *)
(***************************************************************************)
\* status 0 stands for requests.post raising (timeout, connection refused)
NoApiResponse ==
    [status |-> 0, wellFormed |-> FALSE, tag |-> "none", type |-> "", elems |-> <<>>]

\* no answer at all: requests.post raised
NoAnswerAtAll ==
    [status |-> 0, wellFormed |-> FALSE, tag |-> "", type |-> "", elems |-> <<>>]

\* the answers without rows: a status, a body that parses or not, the root's
\* tag and its type attribute
ResponseShapes ==
    [status : {200, 500}, wellFormed : BOOLEAN, tag : {"results", "err", "result"},
     type : {"", "5"}, elems : {<<>>}]

\* the message of the exception _make_request raises, "" when it returns the root
MakeRequest(resp) ==
    IF resp.status = 0 THEN "ConnectionError"
    ELSE IF resp.status # 200 THEN "HTTP Error"
    ELSE IF ~resp.wellFormed THEN "ParseError"
    ELSE IF resp.tag = "err" THEN "API Error"
    ELSE IF resp.tag = "result" /\ resp.type = "5" THEN "Unauthorized"
    ELSE ""

\* the class of that exception
ExceptionClass(resp) ==
    IF resp.status = 0 THEN "ConnectionError"
    ELSE IF resp.status # 200 THEN "Exception"
    ELSE IF ~resp.wellFormed THEN "ParseError"
    ELSE IF resp.tag = "err" THEN "Exception"
    ELSE IF resp.tag = "result" /\ resp.type = "5" THEN "Exception"
    ELSE ""

FailedResponses ==
    {NoAnswerAtAll} \cup {r \in ResponseShapes : MakeRequest(r) # ""}

\* a result root that carries no rows and signals no authorization failure
EmptyResult ==
    [status |-> 200, wellFormed |-> TRUE, tag |-> "result", type |-> "", elems |-> <<>>]

GoodResponse(elems) ==
    [status |-> 200, wellFormed |-> TRUE, tag |-> "results", type |-> "", elems |-> elems]

(***************************************************************************)
(* Initial states.                                                         *)
(***************************************************************************)
NoException == [phase |-> "none", type |-> "", msg |-> "", kind |-> ""]
NoSpec == [kind |-> "none", keys |-> {}, indices |-> <<>>, query |-> "", aggs |-> ""]
NoBody == [index |-> <<>>, query |-> "", hasAggs |-> FALSE, size |-> 0, sent |-> FALSE]
NoResult == [total |-> 0, hits |-> 0, hasAggs |-> FALSE]
NoExc == [stage |-> "none", msg |-> ""]
NoAnswer == [kind |-> "none", err |-> ""]
NoResponse == [status |-> 0, keys |-> {}]

\* a document an earlier run left in the invoices index
PriorDoc ==
    [id |-> "1", auto |-> FALSE, n |-> 0,
     source |-> [c \in {"number", "indexed_at"} |->
                    IF c = "number" THEN IntV(1) ELSE Str("earlier")]]

\* an empty store
InitStore ==
    /\ store = [t \in EntityTypes |-> {}]
    /\ exists = {}
    /\ mapped = {}
    /\ indexOps = {}
    /\ autoId = 0
    /\ clock = 0
    /\ faults = 0

\* an empty store, or the store an earlier run left
InitStoreEtl ==
    /\ \/ /\ store = [t \in EntityTypes |-> {}]
          /\ exists = {}
          /\ mapped = {}
       \/ /\ store = [t \in EntityTypes |-> IF t = "invoices" THEN {PriorDoc} ELSE {}]
          /\ exists = {"invoices"}
          /\ mapped = {"invoices"}
    /\ indexOps = {}
    /\ autoId = 0
    /\ clock = 0
    /\ faults = 0

InitLoadVars ==
    /\ lastDf = NoDf
    /\ actions = <<>>
    /\ rejected = {}
    /\ bulkCalls = {}
    /\ bulkRaised = {}
    /\ loadRet = IntV(0)
    /\ failLog = 0
    /\ rowsLoaded = 0

InitEtlVars ==
    /\ trigger = "none"
    /\ data = [t \in EntityTypes |-> NoDf]
    /\ requested = {}
    /\ loadCalls = {}
    /\ fi = 0
    /\ si = 0
    /\ li = 0
    /\ raised = NoException
    /\ result = "none"
    /\ written = {}
    /\ srcRows = 0
    /\ etlResp = NoResponse
    /\ response = NoApiResponse

InitMigrateVars ==
    /\ confirm = <<>>
    /\ migRet = "none"
    /\ mi = 0

\* no client constructed, no scheduler started, no forecast requested
NoClient == [kind |-> "none", target |-> None, key |-> None]
NoConn ==
    [endpoint |-> None, cloud_id |-> None, api_key |-> None, es_host |-> Str("localhost"),
     indexer |-> NoClient, handler |-> NoClient]
NoSched ==
    [pc |-> "off", now |-> 0, first |-> 0, nextRun |-> 0, started |-> 0, last |-> "none",
     interrupted |-> FALSE]
NoForecast == [metric |-> "", periods |-> 0]

InitExtraVars ==
    /\ conn = NoConn
    /\ sched = NoSched
    /\ forecastArgs = NoForecast
    /\ askBody = "none"

InitConcVars ==
    /\ runs = [r \in RunIds |-> IdleRun]

InitAskVars ==
    /\ question = ""
    /\ respText = <<>>
    /\ querySpec = NoSpec
    /\ searchBody = NoBody
    /\ esResult = NoResult
    /\ formatted = <<>>
    /\ exc = NoExc
    /\ answer = NoAnswer
    /\ askResp = NoResponse
    /\ calls = <<>>

(***************************************************************************)
(* SpecLoad: loads of one entity type, one after the other.                *)
(***************************************************************************)
LoadTypes == {"invoices", "items"}

InitLoad ==
    /\ InitStore
    /\ InitLoadVars
    /\ InitEtlVars
    /\ InitAskVars
    /\ InitMigrateVars
    /\ InitConcVars
    /\ InitExtraVars
    /\ pc = "load"
    /\ loadType \in LoadTypes

\* fetch the type and hand the row-set to index_dataframe
LoadOnce ==
    /\ pc = "load"
    /\ \E elems \in ElementSeqs(loadType, MaxRowsLoaded - rowsLoaded) :
       \E outcome \in BulkOutcomes(Len(elems)) :
          LET df == GetEntity(loadType, elems)
          IN  /\ faults + FaultsOf(outcome) <= MaxFaults
              /\ SkipsIndexing(df) => FaultsOf(outcome) = 0
              /\ Len(elems) > 0
              /\ lastDf' = df
              /\ rowsLoaded' = rowsLoaded + Len(elems)
              /\ faults' = faults + FaultsOf(outcome)
              /\ IndexDataframe(loadType, df, IdFieldOf(loadType), outcome)
    /\ UNCHANGED <<migrateVars, concVars, extraVars, askVars, pc, mapped, indexOps, loadType, etlVars>>

NextLoad == LoadOnce

SpecLoad == InitLoad /\ [][NextLoad]_vars

(***************************************************************************)
(* SpecBulk: one index_dataframe call whose bulk request the store         *)
(* answers, rejecting some of the documents.                               *)
(***************************************************************************)
\* the rows of the call: copies of one element that has the key attribute only
BulkElements(t) == {e \in ElementsOf[t] : DOMAIN e = {KeyField(t)}}

InitBulk ==
    /\ InitStore
    /\ InitLoadVars
    /\ InitEtlVars
    /\ InitAskVars
    /\ InitMigrateVars
    /\ InitConcVars
    /\ InitExtraVars
    /\ pc = "bulk"
    /\ loadType \in LoadTypes

BulkLoad ==
    /\ pc = "bulk"
    /\ \E n \in 1..MaxBulkRows :
       \E e \in BulkElements(loadType) :
       \E outcome \in {o \in BulkOutcomes(n) : ~o.raises} :
          LET df == GetEntity(loadType, [i \in 1..n |-> e])
          IN  /\ lastDf' = df
              /\ rowsLoaded' = rowsLoaded + n
              /\ IndexDataframe(loadType, df, IdFieldOf(loadType), outcome)
    /\ pc' = "bulk_done"
    /\ UNCHANGED <<migrateVars, concVars, extraVars, askVars, mapped, indexOps, faults, loadType,
                   etlVars>>

NextBulk == BulkLoad

SpecBulk == InitBulk /\ [][NextBulk]_vars

(***************************************************************************)
(* Spec: one run of run_etl_pipeline, called from the menu or from         *)
(* POST /api/etl.                                                          *)
(***************************************************************************)
\* the order of the indices dict in create_index_mappings
MappingOrder == <<"invoices", "purchases", "items", "projects", "customers", "objects">>
\* the order of the index_dataframe calls in index_all_data
LoadOrder ==
    <<"invoices", "purchases", "items", "projects",
      "customers", "objects", "accounts", "suppliers">>

\* the rows the accounting system returns in a pipeline run: each carries key "1"
EtlElements == [t \in EntityTypes |-> {e \in ElementsOf[t] : DOMAIN e = {KeyField(t)} /\ e[KeyField(t)] = "1"}]
EtlElementSeqs(t, n) == UNION {[1..k -> EtlElements[t]] : k \in 0..n}
EtlResponses(t, n) ==
    FailedResponses \cup {EmptyResult} \cup {GoodResponse(e) : e \in EtlElementSeqs(t, n)}

InitEtl ==
    /\ InitStoreEtl
    /\ InitLoadVars
    /\ InitEtlVars
    /\ InitAskVars
    /\ InitMigrateVars
    /\ InitConcVars
    /\ InitExtraVars
    /\ pc = "idle"
    /\ loadType = ""

\* main(): option 1, or schedule.run_pending(): run_etl_pipeline is called
StartCli ==
    /\ pc = "idle"
    /\ trigger' = "cli"
    /\ pc' = "fetch"
    /\ UNCHANGED <<migrateVars, concVars, extraVars, askVars, storeVars, faults, loadVars, data, requested, loadCalls, fi, si, li,
                   raised, result, written, srcRows, etlResp, response>>

\* run_etl: request.json and data.get; a body that is not a JSON object raises
\* and the handler's except answers 500 with an error field
StartHttp ==
    /\ pc = "idle"
    /\ trigger' = "http"
    /\ \/ /\ pc' = "fetch"
          /\ UNCHANGED etlResp
       \/ /\ pc' = "responded"
          /\ etlResp' = [status |-> 500, keys |-> {"error"}]
    /\ UNCHANGED <<migrateVars, concVars, extraVars, askVars, storeVars, faults, loadVars, data, requested, loadCalls, fi, si, li,
                   raised, result, written, srcRows, response>>

\* mutant: the dataset handed on after the first fetch
FetchDoneEarly(n) == n >= 1

\* get_all_financial_data returns once every entry of its dict is evaluated
FetchDone(n) == n = Len(FetchOrder)

\* get_all_financial_data: the next get_<entity>() of the dict literal
Fetch ==
    /\ pc = "fetch"
    /\ LET t == FetchOrder[fi + 1]
       IN  \E resp \in EtlResponses(t, MaxSourceRows - srcRows) :
              /\ requested' = requested \cup {t}
              /\ response' = IF MakeRequest(resp) = "" /\ FetchDone(fi + 1)
                              THEN NoApiResponse ELSE resp
              /\ srcRows' = srcRows + Len(resp.elems)
              /\ IF MakeRequest(resp) # ""
                 THEN /\ faults < MaxFaults
                      /\ faults' = faults + 1
                      /\ raised' = [phase |-> "fetch", type |-> t, msg |-> MakeRequest(resp),
                                 kind |-> ExceptionClass(resp)]
                      /\ pc' = "except"
                      /\ UNCHANGED <<data, fi>>
                 ELSE /\ data' = [data EXCEPT ![t] = GetEntity(t, resp.elems)]
                      /\ fi' = fi + 1
                      /\ pc' = IF FetchDone(fi + 1) THEN "schema" ELSE "fetch"
                      /\ UNCHANGED <<faults, raised>>
    /\ UNCHANGED <<migrateVars, concVars, extraVars, askVars, storeVars, loadVars, trigger, loadCalls, si, li, result, written, etlResp>>

\* who issues the calls against the indices
OpBy == IF trigger = "migrate" THEN "migrate" ELSE "pipeline"
IndexOp(op, ix) == [op |-> op, index |-> ix, by |-> OpBy]

\* where the caller of create_index_mappings goes on
AfterSchema == IF trigger = "migrate" THEN "mig_finish" ELSE "load"

\* mutant: create called for every declared index
NeedsCreateAlways(ix) == TRUE

\* es.indices.exists(index=index_name) answered False
NeedsCreate(ix) == ix \notin exists

\* mutant: an except branch that only retries the create
FallbackCallsCreateOnly(ix, deleteRaised) == {IndexOp("create", ix)}

\* the calls of the except branch: delete, and create unless delete raised
FallbackCalls(ix, deleteRaised) ==
    IF deleteRaised THEN {IndexOp("delete", ix)}
    ELSE {IndexOp("delete", ix), IndexOp("create", ix)}

\* create_index_mappings: one turn of its loop
CreateIndexMapping ==
    /\ pc = "schema"
    /\ LET ix == MappingOrder[si + 1]
           \* the except branch: delete (400 and 404 ignored), then create; what
           \* either raises is only logged.  first: the call that raised before
           Fallback(first) ==
               \/ \* both calls answer
                  /\ faults' = faults + 1
                  /\ store' = [store EXCEPT ![ix] = {}]
                  /\ exists' = exists \cup {ix}
                  /\ mapped' = mapped \cup {ix}
                  /\ indexOps' = indexOps \cup first \cup FallbackCalls(ix, FALSE)
               \/ \* the fallback fails as well: an outage that uses up the budget
                  /\ faults = 0
                  /\ faults' = MaxFaults
                  /\ \/ \* delete raises too: create is not reached
                        /\ indexOps' = indexOps \cup first \cup FallbackCalls(ix, TRUE)
                        /\ UNCHANGED <<store, exists, mapped>>
                     \/ \* delete answers, create raises
                        /\ store' = [store EXCEPT ![ix] = {}]
                        /\ exists' = exists \ {ix}
                        /\ mapped' = mapped \ {ix}
                        /\ indexOps' = indexOps \cup first \cup FallbackCalls(ix, FALSE)
       IN  /\ \/ /\ ~NeedsCreate(ix)
                 /\ UNCHANGED <<store, exists, mapped, indexOps, faults>>
              \/ /\ NeedsCreate(ix)
                 /\ exists' = exists \cup {ix}
                 /\ mapped' = mapped \cup {ix}
                 /\ indexOps' = indexOps \cup {IndexOp("create", ix)}
                 /\ UNCHANGED <<store, faults>>
              \/ \* exists() raises
                 /\ faults < MaxFaults
                 /\ Fallback({})
              \/ \* create() raises
                 /\ faults < MaxFaults
                 /\ NeedsCreate(ix)
                 /\ Fallback({IndexOp("create", ix)})
           /\ si' = si + 1
           /\ pc' = IF si + 1 = Len(MappingOrder) THEN AfterSchema ELSE "schema"
    /\ UNCHANGED <<migrateVars, concVars, extraVars, askVars, autoId, clock, loadVars, trigger, data,
                   requested, loadCalls, fi, li, raised, result, written, srcRows, etlResp,
                   response>>

\* identities of the documents the store accepted from a bulk call
Accepted(acts, outcome, base) ==
    IF outcome.raises
    THEN {[index |-> acts[i].index, id |-> acts[i].id, auto |-> ~acts[i].hasId,
           n |-> IF acts[i].hasId THEN 0 ELSE base + AutoCount(acts, {}, i)] :
          i \in 1..Min(outcome.done * ChunkSize, Len(acts))}
    ELSE {[index |-> acts[i].index, id |-> acts[i].id, auto |-> ~acts[i].hasId,
           n |-> IF acts[i].hasId THEN 0 ELSE base + AutoCount(acts, outcome.rejected, i)] :
          i \in (1..Len(acts)) \ outcome.rejected}

\* index_all_data: the next index_dataframe call
Load ==
    /\ pc = "load"
    /\ LET t == LoadOrder[li + 1]
           df == data[t]
       IN  /\ loadCalls' = loadCalls \cup {t}
           /\ lastDf' = df
           /\ \/ \* the row-set is copied and turned into actions, then sent
                 \E outcome \in BulkOutcomes(Len(df.rows)) :
                    /\ faults + FaultsOf(outcome) <= MaxFaults
                    /\ SkipsIndexing(df) => FaultsOf(outcome) = 0
                    /\ faults' = faults + FaultsOf(outcome)
                    /\ IndexDataframe(t, df, IdFieldOf(t), outcome)
                    /\ written' = written \cup
                          (IF SkipsIndexing(df) THEN {}
                           ELSE Accepted(BuildActions(t, df, IdFieldOf(t), NowIso(clock)),
                                         outcome, autoId))
                    /\ li' = li + 1
                    /\ pc' = IF li + 1 = Len(LoadOrder) THEN "finish" ELSE "load"
                    /\ UNCHANGED raised
              \/ \* df.copy() or to_dict() raises (MemoryError): nothing catches it here
                 /\ ~SkipsIndexing(df)
                 /\ faults < MaxFaults
                 /\ faults' = faults + 1
                 /\ raised' = [phase |-> "load", type |-> t, msg |-> "MemoryError",
                                 kind |-> "MemoryError"]
                 /\ pc' = "except"
                 /\ UNCHANGED <<store, exists, autoId, clock, actions, rejected, bulkCalls, bulkRaised,
                                loadRet, failLog, li, written>>
    /\ UNCHANGED <<migrateVars, concVars, extraVars, askVars, mapped, indexOps, loadType, rowsLoaded, trigger, data, requested, fi, si, result,
                   srcRows, etlResp, response>>

\* run_etl_pipeline: return True
Finish ==
    /\ pc = "finish"
    /\ result' = "True"
    /\ pc' = "done"
    /\ UNCHANGED <<migrateVars, concVars, extraVars, askVars, storeVars, faults, loadVars, trigger, data, requested, loadCalls, fi, si,
                   li, raised, written, srcRows, etlResp, response>>

\* mutant: an except clause that deletes what the run wrote
ExceptRollback ==
    /\ pc = "except"
    /\ result' = "False"
    /\ pc' = "done"
    /\ store' = [t \in EntityTypes |->
                    {d \in store[t] :
                        [index |-> t, id |-> d.id, auto |-> d.auto, n |-> d.n] \notin written}]
    /\ UNCHANGED <<migrateVars, concVars, extraVars, askVars, exists, mapped, indexOps, autoId, clock, faults, loadVars, trigger, data,
                   requested, loadCalls, fi, si, li, raised, written, srcRows, etlResp, response>>

\* run_etl_pipeline: except Exception: log, return False
Except ==
    /\ pc = "except"
    /\ result' = "False"
    /\ pc' = "done"
    /\ UNCHANGED <<migrateVars, concVars, extraVars, askVars, storeVars, faults, loadVars, trigger, data, requested, loadCalls, fi, si,
                   li, raised, written, srcRows, etlResp, response>>

\* the body and status run_etl answers with
EtlResponse(success) ==
    IF success = "True"
    THEN [status |-> 200, keys |-> {"status", "message"}]
    ELSE [status |-> 500, keys |-> {"status", "message"}]

\* run_etl: jsonify the outcome
RespondEtl ==
    /\ pc = "done"
    /\ trigger = "http"
    /\ etlResp' = EtlResponse(result)
    /\ pc' = "responded"
    /\ UNCHANGED <<migrateVars, concVars, extraVars, askVars, storeVars, faults, loadVars, trigger, data, requested, loadCalls, fi, si,
                   li, raised, result, written, srcRows, response>>

(***************************************************************************)
(* SpecIndexAll: index_all_data on a dataset already fetched, called by    *)
(* run_etl_pipeline.  One entity type may carry more rows than one chunk   *)
(* of the bulk call holds.                                                 *)
(***************************************************************************)
\* the type that may come with more than ChunkSize rows, and the other types
\* that have rows at all
LargeType == "accounts"
SmallTypes == {"invoices", "suppliers"}

\* n rows of type t, each with the key "1"
RowsOf(t, n) == GetEntity(t, [i \in 1..n |-> CHOOSE e \in EtlElements[t] : TRUE])

IndexAllDatasets ==
    {[t \in EntityTypes |->
         IF t = LargeType THEN RowsOf(t, big)
         ELSE IF t \in SmallTypes THEN RowsOf(t, k[t])
         ELSE NoDf] :
     big \in {0, 1, ChunkSize + 1}, k \in [SmallTypes -> 0..1]}

InitIndexAll ==
    /\ InitStoreEtl
    /\ InitLoadVars
    /\ InitAskVars
    /\ InitMigrateVars
    /\ InitConcVars
    /\ InitExtraVars
    /\ pc = "schema"
    /\ loadType = ""
    /\ trigger = "cli"
    /\ data \in IndexAllDatasets
    /\ requested = EntityTypes
    /\ loadCalls = {}
    /\ fi = Len(FetchOrder)
    /\ si = 0
    /\ li = 0
    /\ raised = NoException
    /\ result = "none"
    /\ written = {}
    /\ srcRows = 0
    /\ etlResp = NoResponse
    /\ response = NoApiResponse

NextIndexAll ==
    \/ CreateIndexMapping
    \/ Load
    \/ Finish
    \/ Except

SpecIndexAll == InitIndexAll /\ [][NextIndexAll]_vars

(***************************************************************************)
(* SpecConc: two pipeline runs at the same time, one started by the        *)
(* scheduler loop or by a request, the other by a request served on its    *)
(* own thread.  They share the store and nothing else; the accounting API  *)
(* and the store answer without faults.                                    *)
(***************************************************************************)
\* the entity types the accounting system holds rows of
ConcTypes == {"invoices", "customers"}

\* the datasets get_all_financial_data may return: at most n rows, each with
\* the key "1"
ConcDatasets(n) ==
    {[t \in EntityTypes |->
         GetEntity(t, IF t \in ConcTypes
                      THEN [i \in 1..k[t] |-> CHOOSE e \in EtlElements[t] : TRUE]
                      ELSE <<>>)] :
     k \in {f \in [ConcTypes -> 0..n] : f["invoices"] + f["customers"] <= n}}

\* mutant: a lock that lets one run in at a time
MayStartLocked(r) == \A o \in RunIds \ {r} : runs[o].pc \in {"idle", "done"}

\* run_etl_pipeline takes no lock and tests no flag before it starts
MayStart(r) == TRUE

InitConc ==
    /\ InitStoreEtl
    /\ InitLoadVars
    /\ InitEtlVars
    /\ InitAskVars
    /\ InitMigrateVars
    /\ InitConcVars
    /\ InitExtraVars
    /\ pc = "conc"
    /\ loadType = ""

concRest == <<pc, faults, loadType, rowsLoaded, etlVars, askVars, migrateVars, extraVars>>

\* schedule.run_pending() or POST /api/etl calls run_etl_pipeline; the
\* scheduler loop runs its job to the end before it looks again
ConcStart(r) ==
    /\ runs[r].pc = "idle"
    /\ MayStart(r)
    /\ \E by \in {"schedule", "http"} :
          /\ by = "schedule" =>
                \A o \in RunIds \ {r} : runs[o].trigger # "schedule"
          /\ runs' = [runs EXCEPT ![r].pc = "fetch", ![r].trigger = by]
    /\ UNCHANGED <<concRest, storeVars, lastDf, actions, rejected, bulkCalls, bulkRaised, loadRet,
                   failLog>>

\* get_all_financial_data, all eight requests
ConcFetch(r) ==
    /\ runs[r].pc = "fetch"
    /\ \E d \in ConcDatasets(MaxSourceRows) :
          runs' = [runs EXCEPT ![r].pc = "schema", ![r].data = d]
    /\ UNCHANGED <<concRest, storeVars, lastDf, actions, rejected, bulkCalls, bulkRaised, loadRet,
                   failLog>>

\* create_index_mappings, all six turns of its loop
ConcSchema(r) ==
    /\ runs[r].pc = "schema"
    /\ LET missing == {ix \in {MappingOrder[i] : i \in 1..Len(MappingOrder)} : NeedsCreate(ix)}
       IN  /\ exists' = exists \cup missing
           /\ mapped' = mapped \cup missing
           /\ indexOps' = indexOps \cup {IndexOp("create", ix) : ix \in missing}
    /\ runs' = [runs EXCEPT ![r].pc = "load"]
    /\ UNCHANGED <<concRest, store, autoId, clock, lastDf, actions, rejected, bulkCalls, bulkRaised,
                   loadRet, failLog>>

\* index_all_data: the next index_dataframe call of run r
ConcLoad(r) ==
    /\ runs[r].pc = "load"
    /\ LET t == LoadOrder[runs[r].li + 1]
           df == runs[r].data[t]
       IN  /\ lastDf' = df
           /\ IndexDataframe(t, df, IdFieldOf(t), [raises |-> FALSE, rejected |-> {}, done |-> 1])
           /\ runs' = [runs EXCEPT
                  ![r].li = @ + 1,
                  ![r].stamps = IF SkipsIndexing(df) THEN @ ELSE @ \cup {NowIso(clock)},
                  ![r].pc = IF runs[r].li + 1 = Len(LoadOrder) THEN "finish" ELSE "load"]
    /\ UNCHANGED <<concRest, mapped, indexOps>>

\* run_etl_pipeline: return True
ConcFinish(r) ==
    /\ runs[r].pc = "finish"
    /\ runs' = [runs EXCEPT ![r].pc = "done", ![r].result = "True"]
    /\ UNCHANGED <<concRest, storeVars, lastDf, actions, rejected, bulkCalls, bulkRaised, loadRet,
                   failLog>>

NextConc ==
    \E r \in RunIds :
        \/ ConcStart(r)
        \/ ConcFetch(r)
        \/ ConcSchema(r)
        \/ ConcLoad(r)
        \/ ConcFinish(r)

SpecConc == InitConc /\ [][NextConc]_vars

(***************************************************************************)
(* migrate_indices: the administrative reset.                              *)
(***************************************************************************)
\* the indices_to_migrate list
MigrateOrder == <<"invoices", "purchases", "items", "projects", "customers", "objects">>

\* what the operator may type, one character per element
ConfirmChars == {" ", "Y", "E", "S", "y"}
ConfirmInputs == UNION {[1..k -> ConfirmChars] : k \in 0..MaxConfirmLen}

\* str.strip()
RECURSIVE LStrip(_)
LStrip(s) == IF s # <<>> /\ Head(s) = " " THEN LStrip(Tail(s)) ELSE s
RECURSIVE RStrip(_)
RStrip(s) == IF s # <<>> /\ s[Len(s)] = " " THEN RStrip(SubSeq(s, 1, Len(s) - 1)) ELSE s
Strip(s) == RStrip(LStrip(s))

\* mutant: a prompt that takes any answer starting with Y or y
ConfirmedByInitial(s) == Strip(s) # <<>> /\ Head(Strip(s)) \in {"Y", "y"}

\* confirm = input(...).strip(); confirm != 'YES' cancels
Confirmed(s) == Strip(s) = <<"Y", "E", "S">>

migRest == <<storeVars, loadVars, etlVars, askVars, concVars, extraVars>>

\* migrate_indices up to the prompt: the configuration, the client, the ping
MigrateStart ==
    /\ pc = "idle"
    /\ trigger' = "migrate"
    /\ \/ \* endpoint or key missing, or ping() answers False
          /\ migRet' = "False"
          /\ pc' = "done"
          /\ UNCHANGED faults
       \/ \* Elasticsearch() or ping() raises: the outer except
          /\ faults < MaxFaults
          /\ faults' = faults + 1
          /\ migRet' = "False"
          /\ pc' = "done"
       \/ /\ pc' = "confirm"
          /\ UNCHANGED <<migRet, faults>>
    /\ UNCHANGED <<storeVars, loadVars, askVars, concVars, extraVars, confirm, mi, data, requested,
                   loadCalls, fi, si, li, raised, result, written, srcRows, etlResp,
                   response>>

\* the prompt: input() raising (end of input) is caught by the outer except
MigrateConfirm ==
    /\ pc = "confirm"
    /\ \/ /\ confirm' = <<"EOF">>
          /\ migRet' = "False"
          /\ pc' = "done"
       \/ \E typed \in ConfirmInputs :
             /\ confirm' = typed
             /\ IF Confirmed(typed)
                THEN /\ pc' = "mig_delete"
                     /\ UNCHANGED migRet
                ELSE /\ migRet' = "False"
                     /\ pc' = "done"
    /\ UNCHANGED <<migRest, faults, mi>>

\* one turn of the delete loop: exists, count, delete; what raises is printed
MigrateDelete ==
    /\ pc = "mig_delete"
    /\ LET ix == MigrateOrder[mi + 1]
       IN  /\ \/ /\ ix \in exists
                 /\ store' = [store EXCEPT ![ix] = {}]
                 /\ exists' = exists \ {ix}
                 /\ mapped' = mapped \ {ix}
                 /\ indexOps' = indexOps \cup {IndexOp("delete", ix)}
                 /\ UNCHANGED faults
              \/ /\ ix \notin exists
                 /\ UNCHANGED <<store, exists, mapped, indexOps, faults>>
              \/ \* exists() or count() raises
                 /\ faults < MaxFaults
                 /\ faults' = faults + 1
                 /\ UNCHANGED <<store, exists, mapped, indexOps>>
              \/ \* delete() raises
                 /\ faults < MaxFaults
                 /\ ix \in exists
                 /\ faults' = faults + 1
                 /\ indexOps' = indexOps \cup {IndexOp("delete", ix)}
                 /\ UNCHANGED <<store, exists, mapped>>
           /\ mi' = mi + 1
           /\ pc' = IF mi + 1 = Len(MigrateOrder) THEN "mig_connect" ELSE "mig_delete"
    /\ UNCHANGED <<autoId, clock, loadVars, etlVars, askVars, concVars, extraVars, confirm, migRet>>

\* ElasticsearchIndexer(endpoint, api_key): connects and pings; a failure is
\* raised and caught by the outer except of migrate_indices
MigrateConnect ==
    /\ pc = "mig_connect"
    /\ \/ /\ faults < MaxFaults
          /\ faults' = faults + 1
          /\ migRet' = "False"
          /\ pc' = "done"
       \/ /\ pc' = "schema"
          /\ UNCHANGED <<faults, migRet>>
    /\ UNCHANGED <<migRest, confirm, mi>>

\* migrate_indices: return True
MigrateFinish ==
    /\ pc = "mig_finish"
    /\ migRet' = "True"
    /\ pc' = "done"
    /\ UNCHANGED <<migRest, faults, confirm, mi>>

(***************************************************************************)
(* AIQueryHandler: the oracle's text and _build_elasticsearch_query.       *)
(*                                                                         *)
(* A text is a sequence of tokens: the code fence (three backquotes), the  *)
(* word json, prose and JSON payloads.  The json fence is the fence        *)
(* followed by the word.                                                   *)
(***************************************************************************)
Fence == "FENCE"
JsonPayloads ==
    {"OBJ_AGGS", "OBJ_NOAGGS", "OBJ_EMPTYAGGS", "OBJ_MALFORMED_QUERY", "LIST"}
TextTokens == {Fence, "json", "prose"} \cup JsonPayloads
OracleTexts == UNION {[1..k -> TextTokens] : k \in 0..MaxTextLen}

\* json.loads of one payload
JsonValue(tok) ==
    CASE tok = "OBJ_AGGS" ->
            [kind |-> "object", keys |-> {"indices", "query", "aggs"},
             indices |-> <<"invoices">>, query |-> "match_all", aggs |-> "sum"]
      [] tok = "OBJ_NOAGGS" ->
            [kind |-> "object", keys |-> {"indices"},
             indices |-> <<"invoices">>, query |-> "", aggs |-> ""]
      [] tok = "OBJ_EMPTYAGGS" ->
            [kind |-> "object", keys |-> {"indices", "query", "aggs"},
             indices |-> <<"invoices", "purchases">>, query |-> "match_all",
             aggs |-> "empty"]
      [] tok = "OBJ_MALFORMED_QUERY" ->
            [kind |-> "object", keys |-> {"query", "aggs"},
             indices |-> <<>>, query |-> "unknown_field", aggs |-> "sum"]
      [] OTHER ->
            [kind |-> "list", keys |-> {}, indices |-> <<>>, query |-> "", aggs |-> ""]

\* sep in text
Contains(text, sep) ==
    \E i \in 1..(Len(text) - Len(sep) + 1) : SubSeq(text, i, i + Len(sep) - 1) = sep

FirstAt(text, sep) ==
    CHOOSE i \in 1..(Len(text) - Len(sep) + 1) :
        /\ SubSeq(text, i, i + Len(sep) - 1) = sep
        /\ \A j \in 1..(i - 1) : SubSeq(text, j, j + Len(sep) - 1) # sep

\* text.split(sep)[0]
SplitHead(text, sep) ==
    IF Contains(text, sep) THEN SubSeq(text, 1, FirstAt(text, sep) - 1) ELSE text

\* text.split(sep)[1], for a text that contains sep
SplitSecond(text, sep) ==
    SplitHead(SubSeq(text, FirstAt(text, sep) + Len(sep), Len(text)), sep)

\* mutant: a removal that knows the plain fence only
StripFencesPlainOnly(text) ==
    IF Contains(text, <<Fence>>)
    THEN SplitHead(SplitSecond(text, <<Fence>>), <<Fence>>)
    ELSE text

\* the code-fence removal
StripFences(text) ==
    IF Contains(text, <<Fence, "json">>)
    THEN SplitHead(SplitSecond(text, <<Fence, "json">>), <<Fence>>)
    ELSE IF Contains(text, <<Fence>>)
    THEN SplitHead(SplitSecond(text, <<Fence>>), <<Fence>>)
    ELSE text

\* json.loads: one JSON value and nothing else
JsonLoads(text) ==
    IF Len(text) = 1 /\ text[1] \in JsonPayloads
    THEN [ok |-> TRUE, value |-> JsonValue(text[1])]
    ELSE [ok |-> FALSE, value |-> NoSpec]

\* the try block of _build_elasticsearch_query
ParseOracleText(text) == JsonLoads(StripFences(text))

(***************************************************************************)
(* _execute_elasticsearch_query and _format_results_for_ai                 *)
(***************************************************************************)
\* bool(aggs) after query_spec.get('aggs', {})
AggsTruthy(spec) == "aggs" \in spec.keys /\ spec.aggs \notin {"", "empty"}

\* mutant: the body without the size 0 of an aggregation request
SearchBodyAlwaysCapped(spec) ==
    [index |-> IF "indices" \in spec.keys THEN spec.indices ELSE <<"invoices">>,
     query |-> IF "query" \in spec.keys THEN spec.query ELSE "match_all",
     hasAggs |-> AggsTruthy(spec),
     size |-> DocumentCap,
     sent |-> TRUE]

\* the request _execute_elasticsearch_query sends
SearchBody(spec) ==
    [index |-> IF "indices" \in spec.keys THEN spec.indices ELSE <<"invoices">>,
     query |-> IF "query" \in spec.keys THEN spec.query ELSE "match_all",
     hasAggs |-> AggsTruthy(spec),
     size |-> IF AggsTruthy(spec) THEN 0 ELSE DocumentCap,
     sent |-> TRUE]

\* the store's answer to a search that m documents match: the total, the first
\* size documents, and the aggregations when the body asked for them
SearchResult(body, m) ==
    [total |-> m, hits |-> Min(body.size, m), hasAggs |-> body.hasAggs]

\* json.dumps of the _source of the hit at position i of the result
DocLine(i) == "document json " \o ToString(i)

\* mutant: every returned hit rendered
FormatResultsAllHits(res) ==
    (IF res.hasAggs THEN <<"Aggregation Results:", "aggregations json">> ELSE <<>>)
    \o (IF res.total > 0
        THEN <<"Document Hits">> \o [i \in 1..res.hits |-> DocLine(i)]
        ELSE <<>>)

\* the lines of _format_results_for_ai, before the join
FormatResults(res) ==
    (IF res.hasAggs THEN <<"Aggregation Results:", "aggregations json">> ELSE <<>>)
    \o (IF res.total > 0
        THEN <<"Document Hits">> \o [i \in 1..Min(FormatCap, res.hits) |-> DocLine(i)]
        ELSE <<>>)

(***************************************************************************)
(* answer_question and POST /api/ask                                       *)
(***************************************************************************)
\* mutant: an except clause that catches json.JSONDecodeError only
AnswerOnJsonErrorOnly(e) ==
    IF e.msg = "JSONDecodeError"
    THEN [kind |-> "apology", err |-> e.msg]
    ELSE [kind |-> "raised", err |-> e.msg]

\* what answer_question's except clause makes of the exception e
AnswerOnException(e) == [kind |-> "apology", err |-> e.msg]

\* ask_question's answer to the client, given what answer_question did
AskResponse(ans) ==
    IF ans.kind = "raised"
    THEN [status |-> 500, keys |-> {"error"}]
    ELSE [status |-> 200, keys |-> {"answer"}]

askRest == <<storeVars, loadVars, etlVars, migrateVars, concVars, extraVars>>

\* main(): option 2 or 3 with a non-empty question
AskCli ==
    /\ pc = "idle"
    /\ question' = "q"
    /\ pc' = "translate"
    /\ UNCHANGED <<migrateVars, concVars, extraVars, storeVars, faults, loadVars, data, requested, loadCalls, fi, si, li,
                   raised, result, written, srcRows, etlResp, response>>
    /\ trigger' = "ask_cli"
    /\ UNCHANGED <<respText, querySpec, searchBody, esResult, formatted, exc, answer,
                   askResp, calls>>

\* the bodies of a POST /api/ask request: no JSON object at all, an object
\* without "question", with "question": null, with "question": "", and with a
\* question
AskBodies == {"not_object", "no_question", "null_question", "empty_question", "question"}

\* question = data.get('question', '')
QuestionOf(body) ==
    CASE body = "question" -> Str("q")
      [] body = "null_question" -> None
      [] OTHER -> Str("")

\* mutant: ask_question without its test of the question
QuestionGivenAlways(q) == TRUE

\* the test "if not question" of ask_question, negated
QuestionGiven(q) == Truthy(q)

\* ask_question: a body that is no JSON object raises (500), a missing or empty
\* question is answered 400, any other question goes to answer_question
AskHttp ==
    /\ pc = "idle"
    /\ trigger' = "ask_http"
    /\ \E body \in AskBodies :
          /\ askBody' = body
          /\ IF body = "not_object"
             THEN \* request.json or data.get raises: the except clause
                  /\ pc' = "responded"
                  /\ askResp' = [status |-> 500, keys |-> {"error"}]
                  /\ UNCHANGED question
             ELSE IF ~QuestionGiven(QuestionOf(body))
             THEN /\ pc' = "responded"
                  /\ askResp' = [status |-> 400, keys |-> {"error"}]
                  /\ UNCHANGED question
             ELSE /\ pc' = "translate"
                  /\ question' = "q"
                  /\ UNCHANGED askResp
    /\ UNCHANGED <<migrateVars, concVars, conn, sched, forecastArgs, storeVars, faults, loadVars, data, requested, loadCalls, fi, si, li,
                   raised, result, written, srcRows, etlResp, response>>
    /\ UNCHANGED <<respText, querySpec, searchBody, esResult, formatted, exc, answer, calls>>

\* _build_elasticsearch_query: the chat completion call
Translate ==
    /\ pc = "translate"
    /\ calls' = Append(calls, "oracle")
    /\ \/ /\ faults < MaxFaults
          /\ faults' = faults + 1
          /\ exc' = [stage |-> "translate", msg |-> "APIError"]
          /\ pc' = "except_ask"
          /\ UNCHANGED respText
       \/ /\ respText' \in OracleTexts
          /\ pc' = "parse"
          /\ UNCHANGED <<faults, exc>>
    /\ UNCHANGED <<askRest, question, querySpec, searchBody, esResult, formatted, answer,
                   askResp>>

\* _build_elasticsearch_query: strip the fences, json.loads
Parse ==
    /\ pc = "parse"
    /\ IF ParseOracleText(respText).ok
       THEN /\ querySpec' = ParseOracleText(respText).value
            /\ pc' = "execute"
            /\ UNCHANGED exc
       ELSE /\ exc' = [stage |-> "parse", msg |-> "JSONDecodeError"]
            /\ pc' = "except_ask"
            /\ UNCHANGED querySpec
    /\ UNCHANGED <<askRest, faults, question, respText, searchBody, esResult, formatted,
                   answer, askResp, calls>>

\* _execute_elasticsearch_query: build the body, search
Execute ==
    /\ pc = "execute"
    /\ respText' = <<>>
    /\ IF querySpec.kind # "object"
       THEN \* query_spec.get on a list
            /\ exc' = [stage |-> "execute", msg |-> "AttributeError"]
            /\ pc' = "except_ask"
            /\ UNCHANGED <<faults, searchBody, esResult, calls>>
       ELSE /\ searchBody' = SearchBody(querySpec)
            /\ calls' = Append(calls, "search")
            /\ \/ \* the store rejects the query
                  /\ SearchBody(querySpec).query = "unknown_field"
                  /\ exc' = [stage |-> "execute", msg |-> "BadRequestError"]
                  /\ pc' = "except_ask"
                  /\ UNCHANGED <<faults, esResult>>
               \/ \* the store cannot be reached
                  /\ faults < MaxFaults
                  /\ faults' = faults + 1
                  /\ exc' = [stage |-> "execute", msg |-> "ConnectionError"]
                  /\ pc' = "except_ask"
                  /\ UNCHANGED esResult
               \/ /\ SearchBody(querySpec).query # "unknown_field"
                  /\ \E m \in 0..MaxMatching :
                        esResult' = SearchResult(SearchBody(querySpec), m)
                  /\ pc' = "format"
                  /\ UNCHANGED <<faults, exc>>
    /\ UNCHANGED <<askRest, question, querySpec, formatted, answer, askResp>>

\* _format_results_for_ai
Format ==
    /\ pc = "format"
    /\ formatted' = FormatResults(esResult)
    /\ pc' = "compose"
    /\ UNCHANGED <<askRest, faults, question, respText, querySpec, searchBody, esResult,
                   exc, answer, askResp, calls>>

\* answer_question: the second chat completion call
Compose ==
    /\ pc = "compose"
    /\ calls' = Append(calls, "oracle")
    /\ \/ /\ faults < MaxFaults
          /\ faults' = faults + 1
          /\ exc' = [stage |-> "compose", msg |-> "APIError"]
          /\ pc' = "except_ask"
          /\ UNCHANGED answer
       \/ /\ answer' = [kind |-> "answer", err |-> ""]
          /\ pc' = "answered"
          /\ UNCHANGED <<faults, exc>>
    /\ UNCHANGED <<askRest, question, respText, querySpec, searchBody, esResult, formatted,
                   askResp>>

\* mutant: an except clause that asks the oracle to word the apology
CallsOnFailureAsksOracle(c) == Append(c, "oracle")

\* the external calls after the except clause of answer_question: it makes none
CallsOnFailure(c) == c

\* answer_question: except Exception
AskExcept ==
    /\ pc = "except_ask"
    /\ answer' = AnswerOnException(exc)
    /\ calls' = CallsOnFailure(calls)
    /\ pc' = "answered"
    /\ UNCHANGED <<askRest, faults, question, respText, querySpec, searchBody, esResult,
                   formatted, exc, askResp>>

\* ask_question: jsonify
RespondAsk ==
    /\ pc = "answered"
    /\ trigger = "ask_http"
    /\ askResp' = AskResponse(answer)
    /\ pc' = "responded"
    /\ UNCHANGED <<askRest, faults, question, respText, querySpec, searchBody, esResult,
                   formatted, exc, answer, calls>>

(***************************************************************************)
(* forecast_financial_metrics                                              *)
(***************************************************************************)
\* the arguments of a forecast request
ForecastMetrics == {"revenue", "profit"}
ForecastPeriods == {1, 6}

\* the query dict the function builds, whatever its arguments
ForecastQuery ==
    [kind |-> "object", keys |-> {"indices", "query", "aggs"},
     indices |-> <<"invoices", "purchases">>, query |-> "range_transactiondate",
     aggs |-> "monthly_revenue"]

\* mutant: a forecast that turns a failure into an apology
ForecastApologizes(e) == [kind |-> "apology", err |-> e.msg]

\* forecast_financial_metrics has no try: the exception reaches the caller
ForecastOnException(e) == [kind |-> "raised", err |-> e.msg]

\* a caller asks for a forecast
ForecastStart ==
    /\ pc = "idle"
    /\ trigger' = "forecast"
    /\ \E m \in ForecastMetrics, p \in ForecastPeriods :
          forecastArgs' = [metric |-> m, periods |-> p]
    /\ pc' = "fc_execute"
    /\ UNCHANGED <<migrateVars, concVars, conn, sched, askBody, storeVars, faults, loadVars,
                   data, requested, loadCalls, fi, si, li, raised, result, written, srcRows,
                   etlResp, response, askVars>>

\* _execute_elasticsearch_query(query): the search
ForecastExecute ==
    /\ pc = "fc_execute"
    /\ querySpec' = ForecastQuery
    /\ searchBody' = SearchBody(ForecastQuery)
    /\ calls' = Append(calls, "search")
    /\ \/ \* the store rejects the search or cannot be reached
          /\ faults < MaxFaults
          /\ faults' = faults + 1
          /\ \E msg \in {"BadRequestError", "ConnectionError"} :
                /\ exc' = [stage |-> "execute", msg |-> msg]
                /\ answer' = ForecastOnException([stage |-> "execute", msg |-> msg])
          /\ pc' = "fc_raised"
          /\ UNCHANGED <<esResult, formatted>>
       \/ /\ \E m \in 0..MaxMatching :
                /\ esResult' = SearchResult(SearchBody(ForecastQuery), m)
                /\ formatted' = FormatResults(SearchResult(SearchBody(ForecastQuery), m))
          /\ pc' = "fc_compose"
          /\ UNCHANGED <<faults, exc, answer>>
    /\ UNCHANGED <<askRest, question, respText, askResp>>

\* the chat completion call and the return
ForecastCompose ==
    /\ pc = "fc_compose"
    /\ calls' = Append(calls, "oracle")
    /\ \/ /\ faults < MaxFaults
          /\ faults' = faults + 1
          /\ exc' = [stage |-> "compose", msg |-> "APIError"]
          /\ answer' = ForecastOnException([stage |-> "compose", msg |-> "APIError"])
          /\ pc' = "fc_raised"
       \/ /\ answer' = [kind |-> "answer", err |-> ""]
          /\ pc' = "fc_returned"
          /\ UNCHANGED <<faults, exc>>
    /\ UNCHANGED <<askRest, question, respText, querySpec, searchBody, esResult, formatted,
                   askResp>>

(***************************************************************************)
(* SpecConnect: FinancialAIAssistant.__init__ constructs the indexer and   *)
(* the query handler from the same settings.                               *)
(***************************************************************************)
\* os.getenv of a setting: unset, set to the empty string, or set
SettingValues == {None, Str(""), Str("set")}
HostValues == {Str("localhost"), Str("es")}

\* the Elasticsearch client ElasticsearchIndexer.__init__ constructs
IndexerConnection(c) ==
    IF Truthy(c.endpoint) /\ Truthy(c.api_key)
    THEN [kind |-> "serverless", target |-> c.endpoint, key |-> c.api_key]
    ELSE IF Truthy(c.cloud_id) /\ Truthy(c.api_key)
    THEN [kind |-> "cloud", target |-> c.cloud_id, key |-> c.api_key]
    ELSE [kind |-> "local", target |-> c.es_host, key |-> None]

\* mutant: a handler that tries the cloud id before the endpoint
HandlerConnectionCloudFirst(c) ==
    IF Truthy(c.cloud_id) /\ Truthy(c.api_key)
    THEN [kind |-> "cloud", target |-> c.cloud_id, key |-> c.api_key]
    ELSE IF Truthy(c.endpoint) /\ Truthy(c.api_key)
    THEN [kind |-> "serverless", target |-> c.endpoint, key |-> c.api_key]
    ELSE [kind |-> "local", target |-> c.es_host, key |-> None]

\* the Elasticsearch client AIQueryHandler.__init__ constructs
HandlerConnection(c) ==
    IF Truthy(c.endpoint) /\ Truthy(c.api_key)
    THEN [kind |-> "serverless", target |-> c.endpoint, key |-> c.api_key]
    ELSE IF Truthy(c.cloud_id) /\ Truthy(c.api_key)
    THEN [kind |-> "cloud", target |-> c.cloud_id, key |-> c.api_key]
    ELSE [kind |-> "local", target |-> c.es_host, key |-> None]

InitConnect ==
    /\ InitStore
    /\ InitLoadVars
    /\ InitEtlVars
    /\ InitAskVars
    /\ InitMigrateVars
    /\ InitConcVars
    /\ sched = NoSched
    /\ forecastArgs = NoForecast
    /\ askBody = "none"
    /\ pc = "connect_indexer"
    /\ loadType = ""
    /\ \E e \in SettingValues, c \in SettingValues, k \in SettingValues, h \in HostValues :
          conn = [endpoint |-> e, cloud_id |-> c, api_key |-> k, es_host |-> h,
                  indexer |-> NoClient, handler |-> NoClient]

connRest ==
    <<storeVars, loadVars, etlVars, askVars, migrateVars, concVars, sched, forecastArgs, askBody>>

\* ElasticsearchIndexer.__init__: the client is chosen, then ping() must answer
ConnectIndexer ==
    /\ pc = "connect_indexer"
    /\ conn' = [conn EXCEPT !.indexer = IndexerConnection(conn)]
    /\ \/ /\ pc' = "connect_handler"
          /\ UNCHANGED faults
       \/ \* ping() is False or raises: ConnectionError reaches the caller
          /\ faults < MaxFaults
          /\ faults' = faults + 1
          /\ pc' = "connect_failed"
    /\ UNCHANGED connRest

\* AIQueryHandler.__init__: the client is chosen; no ping
ConnectHandler ==
    /\ pc = "connect_handler"
    /\ conn' = [conn EXCEPT !.handler = HandlerConnection(conn)]
    /\ pc' = "connected"
    /\ UNCHANGED <<connRest, faults>>

NextConnect == ConnectIndexer \/ ConnectHandler

SpecConnect == InitConnect /\ [][NextConnect]_vars

(***************************************************************************)
(* SpecSched: schedule_daily_etl.  Time is counted in minutes from the     *)
(* call; the loop sleeps one minute between two looks at the schedule.     *)
(***************************************************************************)
\* minutes from the call to the first occurrence of time_str
FirstDueTimes == {1, DayMinutes \div 2, DayMinutes}

\* Job._schedule_next_run after a run that ended at minute t: the next
\* occurrence of time_str after t
NextDue(first, t) ==
    IF t < first THEN first ELSE first + DayMinutes * ((t - first) \div DayMinutes + 1)

\* mutant: a loop that ends when the job returns False
LoopStopsOnFailure(ret) == IF ret = "False" THEN "stopped" ELSE "sleep"

\* run_pending ignores what the job returns; the loop goes on to time.sleep
LoopAfterRun(ret) == "sleep"

InitSched ==
    /\ InitStore
    /\ InitLoadVars
    /\ InitEtlVars
    /\ InitAskVars
    /\ InitMigrateVars
    /\ InitConcVars
    /\ conn = NoConn
    /\ forecastArgs = NoForecast
    /\ askBody = "none"
    /\ pc = "sched"
    /\ loadType = ""
    /\ \E f \in FirstDueTimes :
          sched = [pc |-> "poll", now |-> 0, first |-> f, nextRun |-> f, started |-> 0,
                   last |-> "none", interrupted |-> FALSE]

schedRest ==
    <<pc, storeVars, faults, loadVars, etlVars, askVars, migrateVars, concVars, conn,
      forecastArgs, askBody>>

\* schedule.run_pending(): the job is run when its next_run has come
SchedPoll ==
    /\ sched.pc = "poll"
    /\ sched' = [sched EXCEPT !.pc = IF sched.now >= sched.nextRun THEN "run" ELSE "sleep",
                               !.started = IF sched.now >= sched.nextRun THEN @ + 1 ELSE @]
    /\ UNCHANGED schedRest

\* the job: run_etl_pipeline returns True or False after some minutes, and
\* the job is scheduled for the next day
SchedRun ==
    /\ sched.pc = "run"
    /\ \E ret \in {"True", "False"}, d \in 0..MaxRunMinutes :
          sched' = [sched EXCEPT !.pc = LoopAfterRun(ret),
                                 !.last = ret,
                                 !.now = @ + d,
                                 !.nextRun = NextDue(sched.first, sched.now + d)]
    /\ UNCHANGED schedRest

\* time.sleep(60)
SchedSleep ==
    /\ sched.pc = "sleep"
    /\ sched.now < MaxSchedDays * DayMinutes
    /\ sched' = [sched EXCEPT !.pc = "poll", !.now = @ + 1]
    /\ UNCHANGED schedRest

\* Ctrl+C: KeyboardInterrupt ends the loop, wherever it is
SchedInterrupt ==
    /\ sched.pc \in {"poll", "run", "sleep"}
    /\ sched' = [sched EXCEPT !.pc = "stopped", !.interrupted = TRUE]
    /\ UNCHANGED schedRest

NextSched == SchedPoll \/ SchedRun \/ SchedSleep \/ SchedInterrupt

SpecSched == InitSched /\ [][NextSched]_vars

(***************************************************************************)
(* Spec: one request: a pipeline run, a question or the index migration.   *)
(***************************************************************************)
Next ==
    \/ StartCli
    \/ StartHttp
    \/ Fetch
    \/ CreateIndexMapping
    \/ Load
    \/ Finish
    \/ Except
    \/ RespondEtl
    \/ AskCli
    \/ AskHttp
    \/ Translate
    \/ Parse
    \/ Execute
    \/ Format
    \/ Compose
    \/ AskExcept
    \/ RespondAsk
    \/ MigrateStart
    \/ MigrateConfirm
    \/ MigrateDelete
    \/ MigrateConnect
    \/ MigrateFinish
    \/ ForecastStart
    \/ ForecastExecute
    \/ ForecastCompose

Init == InitEtl

Spec == Init /\ [][Next]_vars

(***************************************************************************)
(* Mutants are defined next to the definitions they replace; the           *)
(* properties follow.                                                      *)
(***************************************************************************)
EtlOver == pc \in {"done", "responded"} /\ trigger \in {"cli", "http"}
AskOver == pc \in {"answered", "responded"} /\ trigger \in {"ask_cli", "ask_http"}

\* a value that is neither missing nor the empty string
NonEmptyValue(v) == ~IsNa(v) /\ v # Str("")

\* C1: when the fetch of one entity type fails, every other entity type is
\* still fetched and still loaded in that run.
C1_SiblingsSurviveFetchFailure ==
    (EtlOver /\ raised.phase = "fetch") =>
        \A u \in EntityTypes \ {raised.type} : u \in requested /\ u \in loadCalls

\* C2: answer_question never raises; whatever stage failed, it returns an
\* apology that carries the message of the exception.
C2_AnswerNeverRaises ==
    /\ trigger \in {"ask_cli", "ask_http"} => answer.kind \in {"none", "answer", "apology"}
    /\ (AskOver /\ question # "" /\ exc.stage # "none") =>
            answer.kind = "apology" /\ answer.err = exc.msg
    /\ (AskOver /\ question # "" /\ exc.stage = "none") => answer.kind = "answer"

C2_Witness ==
    /\ pc = "answered"
    /\ exc = [stage |-> "execute", msg |-> "BadRequestError"]
    /\ answer = [kind |-> "apology", err |-> "BadRequestError"]

\* the store holds a document with the identity w
Stored(w) ==
    \E d \in store[w.index] : d.id = w.id /\ d.auto = w.auto /\ d.n = w.n

\* C3: run_etl_pipeline returns False exactly when an exception escaped the
\* fetch or the load phase, True otherwise, never raises, and the documents
\* it wrote before the failure are still in the store afterwards.
C3_FalseOnFailureNoRollback ==
    /\ EtlOver /\ fi + li > 0 =>
          /\ result \in {"True", "False"}
          /\ result = "False" <=> raised.phase # "none"
    /\ trigger \in {"cli", "http"} => \A w \in written : Stored(w)

C3_Witness ==
    /\ EtlOver
    /\ result = "False"
    /\ raised.phase = "load"
    /\ written # {}
    /\ \A w \in written : Stored(w)

\* C4: a row whose key field holds a non-empty value gets that value's string
\* form as document identity; a row whose key field is absent or empty gets
\* none.
C4_IdentityFromKey ==
    \A i \in 1..Len(actions) :
        LET row == lastDf.rows[i]
            kf == IdFieldOf(actions[i].index)
        IN  IF kf \in DOMAIN row /\ NonEmptyValue(row[kf])
            THEN actions[i].hasId /\ actions[i].id = PyStr(row[kf])
            ELSE ~actions[i].hasId

\* C5: documents of one entity type whose key field holds the same non-empty
\* value are one document, and every accepted write without a key added one.
C5_OneDocumentPerKey ==
    pc = "load" =>
        /\ \A d1, d2 \in store[loadType] :
              LET kf == IdFieldOf(loadType)
              IN  (/\ kf \in DOMAIN d1.source
                   /\ kf \in DOMAIN d2.source
                   /\ NonEmptyValue(d1.source[kf])
                   /\ PyEq(d1.source[kf], d2.source[kf])) => d1 = d2
        /\ Cardinality({d \in store[loadType] : d.auto}) = autoId

\* C6: an entity type with an empty row-set causes no bulk call, returns 0 and
\* raises nothing; the non-empty types are still sent to the store and the run
\* reports success.
C6_EmptyTypesSkipped ==
    /\ \A t \in loadCalls :
          DfEmpty(data[t]) =>
              /\ t \notin bulkCalls
              /\ ~(raised.phase = "load" /\ raised.type = t)
    /\ (pc \in {"load", "finish"} /\ li > 0 /\ DfEmpty(data[LoadOrder[li]])) =>
          loadRet = IntV(0) /\ actions = <<>>
    /\ (EtlOver /\ raised.phase = "none" /\ li > 0) =>
          /\ result = "True"
          /\ \A t \in EntityTypes : ~DfEmpty(data[t]) => t \in bulkCalls

C6_Witness ==
    /\ EtlOver
    /\ result = "True"
    /\ DfEmpty(data["invoices"])
    /\ Len(data["customers"].rows) = MaxSourceRows
    /\ bulkCalls = {"customers"}
    /\ Cardinality(store["customers"]) > 0

\* C7: every record index_dataframe builds has every column of the row-set as
\* a key, a missing value is an explicit null, and no record holds a
\* not-a-number or not-a-time value.
C7_ExplicitNulls ==
    /\ \A i \in 1..Len(actions) :
          /\ DOMAIN actions[i].source = lastDf.cols \cup {"indexed_at"}
          /\ \A c \in lastDf.cols :
                /\ actions[i].source[c].k \notin {"nan", "nat"}
                /\ IsNa(lastDf.rows[i][c]) => actions[i].source[c] = None
    /\ \A t \in EntityTypes : \A d \in store[t] : \A c \in DOMAIN d.source :
          d.source[c].k \notin {"nan", "nat"}

C7_Witness ==
    \E i \in 1..Len(actions) :
        /\ lastDf.cols = {"number", "transactiondate"}
        /\ lastDf.rows[i]["number"] = NaN
        /\ lastDf.rows[i]["transactiondate"] = NaT
        /\ actions[i].source["number"] = None
        /\ actions[i].source["transactiondate"] = None
        /\ i \notin rejected
        /\ loadRet.n > 0

\* C8 as stated: size 0 whenever the query spec contains an aggs entry, size
\* 100 otherwise; never more than 100; aggregations always with size 0.
C8_SizeByAggsEntry ==
    searchBody.sent =>
        /\ searchBody.size = (IF "aggs" \in querySpec.keys THEN 0 ELSE DocumentCap)
        /\ searchBody.size <= DocumentCap
        /\ searchBody.hasAggs => searchBody.size = 0

\* C8 amended: size 0 whenever the aggs entry of the query spec is non-empty,
\* size 100 otherwise (no aggs entry, or an empty one); never more than 100;
\* a request carries aggregations exactly when its size is 0.
C8_SizeByNonEmptyAggs ==
    searchBody.sent =>
        /\ searchBody.size =
              (IF "aggs" \in querySpec.keys /\ querySpec.aggs # "empty"
               THEN 0 ELSE DocumentCap)
        /\ searchBody.size <= DocumentCap
        /\ searchBody.hasAggs <=> searchBody.size = 0

C8_Witness ==
    /\ searchBody.sent
    /\ "aggs" \in querySpec.keys
    /\ querySpec.aggs = "sum"
    /\ searchBody.size = 0
    /\ searchBody.hasAggs

\* C9: for a query spec with non-empty aggs the formatted block holds the
\* aggregation section and no document-hits section, however many documents
\* match.
C9_AggregationOutputOnly ==
    (pc \in {"compose", "answered", "responded"} /\ exc.stage \in {"none", "compose"}
        /\ AggsTruthy(querySpec)) =>
        /\ Contains(formatted, <<"Aggregation Results:">>)
        /\ ~Contains(formatted, <<"Document Hits">>)
        /\ \A i \in 1..FormatCap : ~Contains(formatted, <<DocLine(i)>>)

\* C10: when the operation behind POST /api/ask or POST /api/etl fails, the
\* response has a non-2xx status and a body with an error field.
C10_FailureIsErrorResponse ==
    /\ (pc = "responded" /\ trigger = "ask_http" /\ exc.stage # "none") =>
          /\ askResp.status \notin 200..299
          /\ "error" \in askResp.keys
    /\ (pc = "responded" /\ trigger = "http" /\ result = "False") =>
          /\ etlResp.status \notin 200..299
          /\ "error" \in etlResp.keys

\* the first check of _make_request a response fails, in the order the
\* contract gives: status, parse, err, auth
Cause(resp) ==
    IF resp.status # 200 THEN "status"
    ELSE IF ~resp.wellFormed THEN "parse"
    ELSE IF resp.tag = "err" THEN "err"
    ELSE IF resp.tag = "result" /\ resp.type = "5" THEN "auth"
    ELSE "none"

\* the error kind the contract names for a cause
KindOfCause(c) ==
    CASE c \in {"status", "err"} -> "ApiError"
      [] c = "parse" -> "ParseError"
      [] c = "auth" -> "AuthError"
      [] OTHER -> ""

\* the exception classes raised for the responses of one contract kind
ClassesFor(kind) ==
    {ExceptionClass(r) : r \in {x \in ResponseShapes : KindOfCause(Cause(x)) = kind}}

\* C11: _make_request returns the root only for a response that passes the
\* four checks (status 200, well-formed, root not err, not result type 5);
\* for any other response it raises, and what it raises for one kind of cause
\* (ApiError, ParseError, AuthError) is never what it raises for another.
C11_DistinctErrorKinds ==
    (response.tag # "none" /\ response.status # 0) =>
        /\ raised.phase # "fetch" => Cause(response) = "none"
        /\ raised.phase = "fetch" =>
              /\ Cause(response) # "none"
              /\ \A k \in {"ApiError", "ParseError", "AuthError"}
                            \ {KindOfCause(Cause(response))} :
                    raised.kind \notin ClassesFor(k)

\* C12: every document a pipeline run writes goes to a collection that
\* create_index_mappings has declared with its field-kind map.
C12_DeclaredBeforeWrite ==
    trigger \in {"cli", "http"} => \A w \in written : w.index \in mapped

\* C13: no delete of a collection is issued by a pipeline run; only the
\* administrative reset issues one.
C13_NoDeleteByPipeline ==
    \A o \in indexOps : o.op = "delete" => o.by = "migrate"

\* the run of migrate_indices is over
MigrateOver == trigger = "migrate" /\ pc = "done"

\* C14 as stated: migrate_indices issues a delete or a create only when the
\* operator typed exactly YES; after any other input it returns False.
C14_ExactlyYes ==
    /\ (\E o \in indexOps : o.by = "migrate") => confirm = <<"Y", "E", "S">>
    /\ (MigrateOver /\ confirm # <<"Y", "E", "S">>) => migRet = "False"

\* C14 amended: migrate_indices issues a delete or a create only when what
\* the operator typed is YES once the blanks around it are removed; after any
\* other input, or none, it returns False, and no step of it changes a
\* collection or issues a call for one.
C14_YesAfterStrip ==
    /\ [](/\ (\E o \in indexOps : o.by = "migrate") => Strip(confirm) = <<"Y", "E", "S">>
          /\ (MigrateOver /\ Strip(confirm) # <<"Y", "E", "S">>) => migRet = "False")
    /\ [][(trigger' = "migrate" /\ Strip(confirm') # <<"Y", "E", "S">>)
            => UNCHANGED <<store, exists, mapped, indexOps>>]_vars

C14_Witness ==
    /\ MigrateOver
    /\ confirm = <<"y", "E", "S">>
    /\ migRet = "False"
    /\ store["invoices"] = {PriorDoc}
    /\ indexOps = {}

\* the payloads that are JSON objects
ObjectPayloads == {p \in JsonPayloads : JsonValue(p).kind = "object"}
ProseTexts == UNION {[1..k -> {"prose"}] : k \in 0..MaxTextLen}

\* the texts that wrap the payload p in fence markers, plain or json, with or
\* without prose around
FencedTexts(p) ==
    {pre \o <<Fence>> \o tag \o <<p>> \o <<Fence>> \o post :
        pre \in ProseTexts, post \in ProseTexts, tag \in {<<>>, <<"json">>}}

C16_ObjectOrError ==
    /\ querySpec.kind \in {"none", "object"}
    /\ pc = "execute" => querySpec.kind = "object"

\* the first n elements of a sequence
Prefix(seq, n) == {seq[i] : i \in 1..n}

\* C17: the entity types are requested in the order of FetchOrder and loaded
\* in the order of LoadOrder, and the schema step or a write happens only
\* after all eight fetches have succeeded; a run with a failed fetch has
\* written nothing.
C17_FetchAllThenLoadInOrder ==
    trigger \in {"cli", "http"} =>
        /\ \E n \in 0..Len(FetchOrder) : requested = Prefix(FetchOrder, n)
        /\ \E n \in 0..Len(LoadOrder) : loadCalls = Prefix(LoadOrder, n)
        /\ (si > 0 \/ loadCalls # {} \/ bulkCalls # {} \/ written # {} \/ indexOps # {}) =>
              /\ fi = Len(FetchOrder)
              /\ requested = EntityTypes
              /\ raised.phase # "fetch"
        /\ raised.phase = "fetch" =>
              written = {} /\ bulkCalls = {} /\ indexOps = {} /\ loadCalls = {}

C17_Witness ==
    /\ pc = "load"
    /\ trigger = "http"
    /\ fi = Len(FetchOrder)
    /\ loadCalls = {"invoices", "purchases", "items"}
    /\ written # {}

\* C19: every action of an index_dataframe call names the collection of its
\* entity type and carries indexed_at, the time of the call, the same in all
\* actions of the call; every stored document carries an indexed_at of an
\* earlier call.
C19_TypeAndTimestamp ==
    /\ \A i \in 1..Len(actions) :
          /\ actions[i].index = loadType
          /\ "indexed_at" \in DOMAIN actions[i].source
          /\ actions[i].source["indexed_at"] = NowIso(clock - 1)
          /\ actions[i].source["indexed_at"] = actions[1].source["indexed_at"]
    /\ \A d \in store[loadType] :
          /\ "indexed_at" \in DOMAIN d.source
          /\ \E c \in 0..(clock - 1) : d.source["indexed_at"] = NowIso(c)

C19_Witness ==
    /\ Len(actions) = 2
    /\ rejected = {}
    /\ actions[1].source["indexed_at"] = actions[2].source["indexed_at"]
    /\ Cardinality(store[loadType]) = 2

\* the positions of the actions the store accepted
AcceptedPositions == (1..Len(actions)) \ rejected

\* what C20 says of the store and the log after a call with rejections
BulkBestEffort ==
    /\ \A i \in AcceptedPositions :
          \E d \in store[loadType] :
             d.source = actions[i].source /\ d.auto = ~actions[i].hasId
    /\ Cardinality({d \in store[loadType] : d.auto})
          = Cardinality({i \in AcceptedPositions : ~actions[i].hasId})
    /\ failLog <= FailLogCap
    /\ failLog = Min(Cardinality(rejected), FailLogCap)

\* C20 as stated: the accepted documents are written, nothing is raised, at
\* most 5 failures are logged, and the call returns both counts, succeeded
\* and failed.
C20_ReturnsBothCounts ==
    pc = "bulk_done" =>
        /\ BulkBestEffort
        /\ loadRet.k = "tuple"

\* C20 amended: the accepted documents are written, nothing is raised, at
\* most 5 failures are logged, and the call returns one integer, the number
\* of documents that succeeded.
C20_ReturnsSucceededCount ==
    pc = "bulk_done" =>
        /\ BulkBestEffort
        /\ loadRet = IntV(Len(actions) - Cardinality(rejected))

C20_Witness ==
    /\ pc = "bulk_done"
    /\ Len(actions) = MaxBulkRows
    /\ Cardinality(rejected) = FailLogCap + 1
    /\ failLog = FailLogCap
    /\ loadRet = IntV(MaxBulkRows - FailLogCap - 1)

\* the run whose bulk call wrote the document d
WrittenBy(d, r) == d.source["indexed_at"] \in runs[r].stamps

\* C18: no step of a pipeline run waits for the other run: a run can start
\* and a run can issue its next bulk call whatever the other run is doing.
C18_NothingSerializes ==
    \A r \in RunIds :
        /\ runs[r].pc = "idle" => ENABLED ConcStart(r)
        /\ runs[r].pc = "load" => ENABLED ConcLoad(r)

\* the bulk calls of the two runs interleaved: both runs are over, the stored
\* invoice comes from run 2 and the stored customer from run 1
C18_Witness ==
    /\ \A r \in RunIds : runs[r].pc = "done"
    /\ runs[1].trigger = "schedule"
    /\ runs[2].trigger = "http"
    /\ \E d \in store["invoices"] : d.id = "1" /\ WrittenBy(d, 2) /\ ~WrittenBy(d, 1)
    /\ \E d \in store["customers"] : d.id = "1" /\ WrittenBy(d, 1) /\ ~WrittenBy(d, 2)

(***************************************************************************)
(* index_all_data when the bulk call of one type raises.                   *)
(***************************************************************************)
\* the step in which index_dataframe's bulk call raised
BulkRaisedNow == pc = "load" /\ bulkRaised' # bulkRaised

\* the type the raising call was loading
FailedType == CHOOSE t \in EntityTypes : t \in bulkRaised' \ bulkRaised

AllLoadTypes == {LoadOrder[i] : i \in 1..Len(LoadOrder)}

\* what the spec and the code agree on: the failure is swallowed, the call
\* returns 0, and index_all_data goes on to the next type
RaiseSwallowed ==
    /\ [][BulkRaisedNow =>
            /\ loadRet' = IntV(0)
            /\ raised' = raised
            /\ li' = li + 1
            /\ pc' = (IF li + 1 = Len(LoadOrder) THEN "finish" ELSE "load")
            /\ \A t \in EntityTypes \ {FailedType} : store'[t] = store[t]]_vars
    /\ [](pc = "finish" => loadCalls = AllLoadTypes)
    /\ [](pc = "finish" =>
            \A t \in EntityTypes \ bulkRaised :
               (~DfEmpty(data[t]) /\ faults = Cardinality(bulkRaised)) => store[t] # {})

\* C21 as stated: when the bulk write of one type raises, the failure is
\* logged, every later type is still loaded, and the failed type contributes
\* no written document: the store holds for it what it held before the call.
C21_FailedTypeWritesNothing ==
    RaiseSwallowed
    /\ [][BulkRaisedNow => store'[FailedType] = store[FailedType] /\ written' = written]_vars

\* C21 amended: when the bulk write of one type raises, the failure is
\* swallowed, the call for that type returns 0 and every later type is still
\* loaded; the only documents of the failed type that reach the store are
\* those of whole chunks of 500 sent before the request that raised, so a
\* type of at most 500 rows writes nothing.
C21_FailedTypeReturnsZero ==
    RaiseSwallowed
    /\ [][BulkRaisedNow =>
            /\ \A d \in written' \ written : d.index = FailedType
            /\ Len(actions') <= ChunkSize =>
                  store'[FailedType] = store[FailedType] /\ written' = written]_vars

\* the bulk call of accounts raised on its second chunk, the first chunk's
\* document is in the store, and suppliers, the next type, was loaded
C21_Witness ==
    /\ pc = "finish"
    /\ bulkRaised = {LargeType}
    /\ store[LargeType] # {}
    /\ store["suppliers"] # {}
    /\ loadCalls = AllLoadTypes

(***************************************************************************)
(* _format_results_for_ai                                                  *)
(***************************************************************************)
\* the rendered documents of the context block, in the block's order
IsDocLine(l) == \E i \in 1..MaxMatching : l = DocLine(i)
RenderedDocs == SelectSeq(formatted, IsDocLine)

\* C22: the context block renders exactly min(20, returned hits) documents,
\* in the order of the result, and has the aggregation section exactly when
\* the result has aggregations; a result without aggregations and with at
\* least one hit gives document JSON and no aggregation section.
C22_FirstTwentyInOrder ==
    pc = "compose" =>
        /\ Len(RenderedDocs) = Min(20, esResult.hits)
        /\ \A i \in 1..Len(RenderedDocs) : RenderedDocs[i] = DocLine(i)
        /\ Contains(formatted, <<"Aggregation Results:">>) <=> esResult.hasAggs
        /\ (~esResult.hasAggs /\ esResult.hits >= 1) =>
              /\ Contains(formatted, <<DocLine(1)>>)
              /\ ~Contains(formatted, <<"Aggregation Results:">>)
              /\ ~Contains(formatted, <<"aggregations json">>)

\* a search without aggregations returned more than 20 hits and 20 of them
\* were rendered
C22_Witness ==
    /\ pc = "compose"
    /\ ~esResult.hasAggs
    /\ esResult.hits > FormatCap
    /\ Len(RenderedDocs) = FormatCap

(***************************************************************************)
(* create_index_mappings                                                   *)
(***************************************************************************)
DeclaredIndices == {MappingOrder[i] : i \in 1..Len(MappingOrder)}

\* the calls issued so far for the index ix
OpsOn(ops, ix) == {o \in ops : o.index = ix}

\* run r goes through create_index_mappings in this step
SchemaCallBy(r) == runs[r].pc = "schema" /\ runs'[r].pc = "load"

SchemaFaultNow == pc = "schema" /\ faults' > faults

\* C24: when exists() or create() raises for one type, create_index_mappings
\* attempts a drop followed by a create of that type; if that fails as well it
\* logs and goes on.  It never raises to its caller and always goes through
\* all six declared types.
C24_FallbackThenGoOn ==
    /\ [][SchemaFaultNow =>
            LET ix == MappingOrder[si + 1]
            IN  /\ IndexOp("delete", ix) \in indexOps'
                /\ \/ IndexOp("create", ix) \in indexOps'
                   \/ UNCHANGED <<store, exists, mapped>>]_vars
    /\ [][pc = "schema" =>
            /\ si' = si + 1
            /\ pc' = (IF si + 1 = Len(MappingOrder) THEN AfterSchema ELSE "schema")
            /\ raised' = raised]_vars
    /\ [](pc \in {"load", "finish", "mig_finish"} => si = Len(MappingOrder))
    /\ [](raised.phase \in {"none", "fetch", "load"})

\* for invoices the call raised and so did the fallback's create, after its
\* drop: the collection is gone, and the loop went on to the last type
C24_Witness ==
    /\ pc = "load"
    /\ li = 0
    /\ IndexOp("delete", "invoices") \in indexOps
    /\ "invoices" \notin exists
    /\ "objects" \in exists
    /\ si = Len(MappingOrder)

(***************************************************************************)
(* POST /api/ask                                                           *)
(***************************************************************************)
\* the request is answered
AskHttpOver == trigger = "ask_http" /\ pc = "responded"

\* C25: POST /api/ask with a missing or empty question answers 400 with an
\* error body and calls neither the translator nor the store nor the oracle;
\* with a non-empty question it calls answer_question exactly once and
\* answers with a body that has an answer field.
C25_EmptyIs400ElseAnswer ==
    AskHttpOver =>
        /\ askBody \in {"no_question", "null_question", "empty_question"} =>
              /\ askResp = [status |-> 400, keys |-> {"error"}]
              /\ calls = <<>>
              /\ answer = NoAnswer
              /\ searchBody = NoBody
        /\ askBody = "question" =>
              /\ "answer" \in askResp.keys
              /\ answer # NoAnswer
              /\ \E k \in 1..3 : calls = SubSeq(<<"oracle", "search", "oracle">>, 1, k)

\* a request without a question was answered 400
C25_Witness ==
    /\ AskHttpOver
    /\ askBody = "no_question"
    /\ askResp.status = 400

(***************************************************************************)
(* The store connection of the two clients.                                *)
(***************************************************************************)
\* a setting that is set: neither missing nor empty
IsSet(v) == v # None /\ v # Str("")

\* the priority of the spec: endpoint with key, else cloud id with key, else
\* host and port
PriorityKind(c) ==
    IF IsSet(c.endpoint) /\ IsSet(c.api_key) THEN "serverless"
    ELSE IF IsSet(c.cloud_id) /\ IsSet(c.api_key) THEN "cloud"
    ELSE "local"

\* C26: ElasticsearchIndexer and AIQueryHandler choose the store connection
\* by the same priority (endpoint with key, else cloud id with key, else host
\* and port), whichever settings are set or unset: both come to the same
\* connection.
C26_SameConnection ==
    /\ conn.indexer # NoClient => conn.indexer.kind = PriorityKind(conn)
    /\ pc = "connected" =>
          /\ conn.handler = conn.indexer
          /\ conn.handler.kind = PriorityKind(conn)

\* endpoint, cloud id and key are all set: both clients took the endpoint
C26_Witness ==
    /\ pc = "connected"
    /\ IsSet(conn.endpoint) /\ IsSet(conn.cloud_id) /\ IsSet(conn.api_key)
    /\ conn.handler.kind = "serverless"
    /\ conn.indexer.kind = "serverless"

(***************************************************************************)
(* schedule_daily_etl                                                      *)
(***************************************************************************)
\* the due times that have come by minute t
DueBy(first, t) == IF t < first THEN 0 ELSE (t - first) \div DayMinutes + 1

\* C27: a scheduled run that fails (returns False) does not stop the poll
\* loop: the loop keeps looking at the schedule every minute and every later
\* due time still starts a run, until the operator interrupts; the runs the
\* scheduler starts never overlap.
C27_LoopSurvivesFailure ==
    /\ [](sched.pc = "stopped" => sched.interrupted)
    /\ [](sched.pc = "sleep" => sched.started = DueBy(sched.first, sched.now))
    /\ [][(sched.pc = "run" /\ ~sched'.interrupted) => sched'.pc = "sleep"]_vars
    /\ [][(sched.pc = "sleep" /\ ~sched'.interrupted) =>
             sched'.pc = "poll" /\ sched'.now = sched.now + 1]_vars
    /\ [][sched'.started # sched.started =>
             sched.pc = "poll" /\ sched'.pc = "run" /\ sched'.started = sched.started + 1]_vars
    /\ [](sched.pc = "sleep" /\ sched.now < MaxSchedDays * DayMinutes => ENABLED SchedSleep)

\* the first scheduled run failed, and the run of the next day was started
C27_Witness ==
    /\ sched.pc = "run"
    /\ sched.last = "False"
    /\ sched.started = 2
    /\ ~sched.interrupted

(***************************************************************************)
(* The external calls of answer_question.                                  *)
(***************************************************************************)
StageCalls == <<"oracle", "search", "oracle">>

\* the calls made when the stage st has been entered
CallsUpTo(st) ==
    CASE st = "translate" -> {<<"oracle">>}
      [] st = "parse" -> {<<"oracle">>}
      [] st = "execute" -> {<<"oracle">>, <<"oracle", "search">>}
      [] st = "compose" -> {StageCalls}
      [] OTHER -> {}

\* C28: within one answer_question call the external calls come in the order
\* translation oracle, store search, answer oracle; after a failure no later
\* stage's call is made; there are at most two oracle calls and one search
\* per question, and never a write to the store.
C28_TranslateSearchAnswer ==
    /\ [](trigger \in {"ask_cli", "ask_http"} =>
            /\ \E k \in 0..3 : calls = SubSeq(StageCalls, 1, k)
            /\ exc # NoExc => calls \in CallsUpTo(exc.stage)
            /\ answer.kind = "answer" => calls = StageCalls
            /\ indexOps = {} /\ bulkCalls = {} /\ written = {})
    /\ [][trigger' \in {"ask_cli", "ask_http"} =>
            UNCHANGED <<store, exists, mapped, indexOps, autoId>>]_vars
    /\ [][exc # NoExc => calls' = calls]_vars

\* the store rejected the translated query: the answer is an apology and the
\* answer oracle was never called
C28_Witness ==
    /\ AskOver
    /\ exc.stage = "execute"
    /\ calls = <<"oracle", "search">>
    /\ answer.kind = "apology"

(***************************************************************************)
(* The identity of an invoice document.                                    *)
(***************************************************************************)
\* the identity index_dataframe gives a row with the number v when the row is
\* loaded in a batch of its own: the column is int64 and str(v) has no ".0"
IdentityAlone(v) == PyStr(IntV(v.n))

\* C29: the identity of an invoice document depends only on the row's own
\* number: a row with a given number gets the same identity whatever other
\* rows are in the batch (a row with an unparseable or missing number among
\* them), so that a re-run overwrites the document instead of adding one.
C29_IdentityFromOwnNumber ==
    \A i \in 1..Len(actions) :
        (actions[i].index = "invoices" /\ actions[i].hasId) =>
            actions[i].id = IdentityAlone(lastDf.rows[i]["number"])

(***************************************************************************)
(* forecast_financial_metrics: failures and the store query.               *)
(***************************************************************************)
\* C30: forecast_financial_metrics is not covered by the conversion of
\* failures into apologies: a rejection by the store or a failure of the
\* oracle reaches the caller as an exception; and the store query is the same
\* aggregation-only request (size 0, over invoices and purchases) for every
\* metric and every number of periods.
C30_ForecastRaises ==
    trigger = "forecast" =>
        /\ answer.kind # "apology"
        /\ exc # NoExc => pc = "fc_raised" /\ answer = [kind |-> "raised", err |-> exc.msg]
        /\ pc = "fc_returned" => exc = NoExc /\ answer.kind = "answer"
        /\ searchBody.sent =>
              /\ searchBody.size = 0
              /\ searchBody.hasAggs
              /\ searchBody.index = <<"invoices", "purchases">>
              /\ searchBody = [index |-> <<"invoices", "purchases">>,
                               query |-> "range_transactiondate", hasAggs |-> TRUE,
                               size |-> 0, sent |-> TRUE]
        /\ esResult # NoResult => esResult.hits = 0

\* the store rejected the search of a forecast of profit over one period: the
\* exception reached the caller
C30_Witness ==
    /\ trigger = "forecast"
    /\ pc = "fc_raised"
    /\ forecastArgs = [metric |-> "profit", periods |-> 1]
    /\ exc = [stage |-> "execute", msg |-> "BadRequestError"]
    /\ answer.kind = "raised"

====
